---------------------------- MODULE Spec2Model ----------------------------
(***************************************************************************)
(* Model of the symmetry detector (src/symmetry.py) and of the view that   *)
(* drives it (ShapeCanvas._init_view in src/main.py).                      *)
(*                                                                         *)
(* Numbers.  The program computes on floats; the model computes on exact   *)
(* reals.  A Point is a record [x, y, r] of integers that stands for the   *)
(* real point (x, y) / (Scale * sqrt(r)).  Scale = 2 makes the edge        *)
(* midpoints of integer vertices integers; r is 1 until a point is rotated *)
(* and is multiplied by c*c + s*s by a rotation whose cosine and sine are   *)
(* (c, s) / sqrt(c*c + s*s).                                               *)
(*                                                                         *)
(* Rounding.  A float comparison against the tolerance comes out as the    *)
(* exact one unless the exact distance equals the tolerance; it then does  *)
(* too if the coordinates compared were computed without rounding (field   *)
(* `exact`: small integers and their halves, translated, never rotated by a *)
(* nonzero angle), and otherwise the comparison can come out either way:    *)
(* the model takes both outcomes.  The quarter turns of the view are taken *)
(* as exact (in floats cos(radians(90)) is 6.1e-17).                        *)
(*                                                                         *)
(* Objects.  Python Points are mutable objects held by reference, so the   *)
(* model keeps a heap (address -> Point) and lists of addresses.           *)
(***************************************************************************)
EXTENDS Integers, Sequences, FiniteSets

\* ------------------------------------------------------------------ bounds
\* Largest number of vertices of a polygon drawn on the grid.
MaxN == 4
\* The grid the vertices are drawn from: x in Step * (0..MaxX), y in {0, Step}.
MaxX == 2
Step == 5

\* ------------------------------------------------------- program constants
\* Symmetry.CLOSE_ENOUGH: how close matching pixels need to be.
CLOSE_ENOUGH == 5
\* The divisor of _get_midpoint; every stored coordinate is Scale times the real one.
Scale == 2

VARIABLES
  shape,        \* ShapeCanvas.points: the selected shape, a sequence of <<x, y>>
  xoffset,      \* ShapeCanvas.xoffset
  yoffset,      \* ShapeCanvas.yoffset
  rotation,     \* ShapeCanvas.rotation, in degrees
  heap,         \* the Point objects: a sequence, the address of a Point is its index
  _points,      \* Symmetry._points: addresses of the polygon handed to the detector
  points,       \* get_lines_of_symmetry's local `points` after doubling: addresses
  points_copy,  \* the local working copy: addresses
  index,        \* the candidate loop's `index`
  symmetries,   \* the local result list: pairs of addresses
  result,       \* what get_lines_of_symmetry returned: pairs of Points (values)
  events,       \* the observers' log: the callbacks called, in order
  pc            \* the position in _init_view / get_lines_of_symmetry

vars == <<shape, xoffset, yoffset, rotation, heap, _points, points, points_copy,
          index, symmetries, result, events, pc>>

\* ----------------------------------------------------------------- helpers
Abs(a) == IF a < 0 THEN -a ELSE a

RECURSIVE Gcd(_, _)
Gcd(a, b) == IF b = 0 THEN a ELSE Gcd(b, a % b)

\* Point(x, y) for real coordinates given as integers.
Point(x, y) == [x |-> Scale * x, y |-> Scale * y, r |-> 1, exact |-> TRUE]

\* Python's list indexing seq[k]: k counts from 0 and a negative k counts from the end.
InRange(seq, k) == -Len(seq) <= k /\ k < Len(seq)
Item(seq, k) == IF k >= 0 THEN seq[k + 1] ELSE seq[Len(seq) + k + 1]

\* The Points (values) a list of addresses refers to.
Values(h, refs) == [k \in 1..Len(refs) |-> h[refs[k]]]


\* ------------------------------------------------- src/symmetry.py helpers
\* _get_midpoint.  Both points are unrotated (r = 1) and their stored coordinates
\* are even, so the division is exact.
_get_midpoint(p1, p2) ==
  [x |-> (p1.x + p2.x) \div 2, y |-> (p1.y + p2.y) \div 2, r |-> p1.r,
   exact |-> p1.exact /\ p2.exact]

\* _get_distance, squared and scaled: (Scale^2 * r) * distance^2 for two points of
\* the same r (the points of one working copy always share r).
_get_distance(p1, p2) ==
  (p2.x - p1.x) * (p2.x - p1.x) + (p2.y - p1.y) * (p2.y - p1.y)

\* CLOSE_ENOUGH, squared and scaled like _get_distance for points of that r.
close_enough(r) == CLOSE_ENOUGH * CLOSE_ENOUGH * Scale * Scale * r

\* A pair at distance exactly CLOSE_ENOUGH counted as close.
points_at_most_close(p1, p2) ==
  IF _get_distance(p1, p2) <= close_enough(p1.r) THEN {TRUE} ELSE {FALSE}

\* _points_really_close: distance < CLOSE_ENOUGH.  The set of the results the
\* float comparison can have: one, unless the exact distance is CLOSE_ENOUGH and
\* a coordinate was rounded.
_points_really_close(p1, p2) ==
  IF _get_distance(p1, p2) < close_enough(p1.r) THEN {TRUE}
  ELSE IF _get_distance(p1, p2) = close_enough(p1.r) /\ ~(p1.exact /\ p2.exact)
       THEN {TRUE, FALSE}
       ELSE {FALSE}

\* The angle without the minus sign of _get_angle.
get_angle_unnegated(p1, p2) ==
  LET dx == p2.x - p1.x
      dy == p2.y - p1.y
      g  == Gcd(Abs(dx), Abs(dy))
  IN  IF g = 0 THEN [c |-> 1, s |-> 0] ELSE [c |-> dx \div g, s |-> dy \div g]

\* _get_angle: -atan2(dy, dx).  The angle is kept as the integer vector (c, s)
\* whose direction it is: cos = c / sqrt(c*c + s*s), sin = s / sqrt(c*c + s*s),
\* reduced by the gcd.  atan2(0, 0) is 0, the direction (1, 0).
_get_angle(p1, p2) ==
  LET dx == p2.x - p1.x
      dy == p2.y - p1.y
      g  == Gcd(Abs(dx), Abs(dy))
  IN  IF g = 0 THEN [c |-> 1, s |-> 0] ELSE [c |-> dx \div g, s |-> -(dy \div g)]

\* _rotate_point: the standard rotation; the common factor 1 / sqrt(c*c + s*s) of
\* cos and sin goes into r.  Only the angle 0 (cos 1, sin 0) rotates without
\* rounding.
_rotate_point(p, angle) ==
  [x |-> p.x * angle.c - p.y * angle.s,
   y |-> p.x * angle.s + p.y * angle.c,
   r |-> p.r * (angle.c * angle.c + angle.s * angle.s),
   exact |-> p.exact /\ angle = [c |-> 1, s |-> 0]]

\* _translate_shape: `for pc in points: pc.x -= dx; pc.y -= dy`, on the heap.
RECURSIVE translate_from(_, _, _, _, _)
translate_from(h, refs, k, dx, dy) ==
  IF k > Len(refs) THEN h
  ELSE translate_from([h EXCEPT ![refs[k]] = [@ EXCEPT !.x = @ - dx, !.y = @ - dy]],
                      refs, k + 1, dx, dy)

_translate_shape(h, refs, dx, dy) == translate_from(h, refs, 1, dx, dy)

\* `for p in points_copy: self._rotate_point(p, angle)`, on the heap.
RECURSIVE rotate_from(_, _, _, _)
rotate_from(h, refs, k, angle) ==
  IF k > Len(refs) THEN h
  ELSE rotate_from([h EXCEPT ![refs[k]] = _rotate_point(@, angle)], refs, k + 1, angle)

\* The loop of _double_points: a new midpoint object before every point but the
\* first, then the point itself (the same object, not a copy).
RECURSIVE double_from(_, _, _, _)
double_from(h, refs, k, acc) ==
  IF k > Len(refs) THEN [heap |-> h, refs |-> acc]
  ELSE IF k > 1
       THEN LET h2 == Append(h, _get_midpoint(h[refs[k - 1]], h[refs[k]]))
            IN  double_from(h2, refs, k + 1, acc \o <<Len(h2), refs[k]>>)
       ELSE double_from(h, refs, k + 1, Append(acc, refs[k]))

\* _double_points without the closing midpoint of the wrap-around edge.
double_points_open(h, refs) == double_from(h, refs, 1, <<>>)

\* _double_points: the loop, then the midpoint of the last point and points[0]
\* when there was a point at all.
_double_points(h, refs) ==
  LET d == double_from(h, refs, 1, <<>>)
  IN  IF Len(refs) > 0
      THEN LET h2 == Append(d.heap, _get_midpoint(d.heap[refs[Len(refs)]], d.heap[refs[1]]))
           IN  [heap |-> h2, refs |-> Append(d.refs, Len(h2))]
      ELSE d

\* copy.deepcopy of a list of Points: a new object per distinct object of the
\* list (deepcopy's memo keeps two references to one object one object).
RECURSIVE deepcopy_from(_, _, _, _)
deepcopy_from(h, refs, k, acc) ==
  IF k > Len(refs) THEN [heap |-> h, refs |-> acc]
  ELSE LET seen == {j \in 1..(k - 1) : refs[j] = refs[k]}
       IN  IF seen # {}
           THEN deepcopy_from(h, refs, k + 1, Append(acc, acc[CHOOSE j \in seen : TRUE]))
           ELSE LET h2 == Append(h, h[refs[k]])
                IN  deepcopy_from(h2, refs, k + 1, Append(acc, Len(h2)))

\* A copy that shares the Points with the original list.
shallow_copy(h, refs) == [heap |-> h, refs |-> refs]

deepcopy(h, refs) == deepcopy_from(h, refs, 1, <<>>)

\* half_length = int(length / 2)
half_length_up(length) == (length + 2) \div 2

half_length(length) == length \div 2

\* The mirror check of one candidate on the rotated working copy: every pair
\* points_copy[index - m], points_copy[index + m] is compared by (x, |y|); the
\* loop has no early exit, so `symmetrical` is the conjunction over all m.  Both
\* are the sets of the values the float computation can give.
mirror_pair(h, copy, idx, m) ==
  LET mirror1_point == h[Item(copy, idx - m)]
      mirror2_point == h[Item(copy, idx + m)]
  IN  _points_really_close([mirror1_point EXCEPT !.y = Abs(@)],
                           [mirror2_point EXCEPT !.y = Abs(@)])

\* The mirror loop running over one pair only.
symmetrical_first_only(h, copy, idx, half) == mirror_pair(h, copy, idx, 0)

symmetrical(h, copy, idx, half) ==
  {v \in BOOLEAN : IF v THEN \A m \in 0..(half - 1) : TRUE \in mirror_pair(h, copy, idx, m)
                         ELSE \E m \in 0..(half - 1) : FALSE \in mirror_pair(h, copy, idx, m)}


\* ------------------------------------------------------ src/main.py: view
\* ShapeCanvas.SHAPES: the two shapes kept.  (Triangle has an irrational vertex,
\* 100 * sqrt(3), which the integer coordinates cannot hold; Pentagon and Hexagon
\* are left out as well.)
Square == <<<<0, 0>>, <<0, 100>>, <<100, 100>>, <<100, 0>>>>
Rectangle == <<<<0, 0>>, <<0, 150>>, <<100, 150>>, <<100, 0>>>>
SHAPES == {Square, Rectangle}

\* The polygons the checks draw from: every sequence of at most MaxN grid points
\* (the empty one is ShapeCanvas.points before a shape is selected), and SHAPES.
Grid == {<<Step * i, j>> : i \in 0..MaxX, j \in {0, Step}}
Polygons == UNION {[1..n -> Grid] : n \in 0..MaxN} \cup SHAPES

\* The slider positions the checks draw from.
Offsets == {0, Step, -Step}
Rotations == {0, 90, 180, 270}

\* math.cos and math.sin of math.radians(angle), for the quarter turns, taken as
\* exact.
Cos(angle) == CASE angle = 0 -> 1 [] angle = 90 -> 0 [] angle = 180 -> -1 [] angle = 270 -> 0
Sin(angle) == CASE angle = 0 -> 0 [] angle = 90 -> 1 [] angle = 180 -> 0 [] angle = 270 -> -1

\* _offset_points on one point: p.x += x; p.y += y.
_offset_points(p, x, y) == [p EXCEPT !.x = @ + Scale * x, !.y = @ + Scale * y]

\* _rotate_points on one point.
_rotate_points(p, angle) ==
  [p EXCEPT !.x = p.x * Cos(angle) - p.y * Sin(angle),
            !.y = p.x * Sin(angle) + p.y * Cos(angle)]

\* The polygon _init_view hands to Symmetry: a deep copy of the shape, offset and
\* then rotated about the origin.
ViewPoints(sh, x, y, angle) ==
  [k \in 1..Len(sh) |-> _rotate_points(_offset_points(Point(sh[k][1], sh[k][2]), x, y), angle)]

\* ------------------------------------------------------------------ states
\* One observer call: which callback, and the index it was given.
Event(kind, idx) == [kind |-> kind, index |-> idx]

InitWith(sh, x, y, angle) ==
  /\ shape = sh
  /\ xoffset = x
  /\ yoffset = y
  /\ rotation = angle
  /\ heap = <<>>
  /\ _points = <<>>
  /\ points = <<>>
  /\ points_copy = <<>>
  /\ index = 0
  /\ symmetries = <<>>
  /\ result = <<>>
  /\ events = <<>>
  /\ pc = "view"

\* A shape is selected and the sliders are where the constructor left them.
Init == \E sh \in Polygons : InitWith(sh, 0, 0, 0)

\* A shape is selected and the sliders have been moved.
InitView ==
  \E sh \in Polygons, x \in Offsets, y \in Offsets, angle \in Rotations :
    InitWith(sh, x, y, angle)

\* _init_view up to the construction of Symmetry (main.py 238-249).
init_view ==
  /\ pc = "view"
  /\ heap' = ViewPoints(shape, xoffset, yoffset, rotation)
  /\ _points' = [k \in 1..Len(shape) |-> k]
  /\ pc' = "constructed"
  /\ UNCHANGED <<shape, xoffset, yoffset, rotation, points, points_copy, index,
                 symmetries, result, events>>

\* get_lines_of_symmetry up to the loop (symmetry.py 102-109).
double ==
  /\ pc = "constructed"
  /\ LET d == _double_points(heap, _points)
     IN  /\ heap' = d.heap
         /\ points' = d.refs
  /\ symmetries' = <<>>
  /\ index' = 0
  /\ pc' = "loop"
  /\ UNCHANGED <<shape, xoffset, yoffset, rotation, _points, points_copy, result, events>>

\* The loop head and the original callback (111-113).
original ==
  /\ pc = "loop"
  /\ index < half_length(Len(points))
  /\ events' = Append(events, Event("original", index))
  /\ pc' = "original"
  /\ UNCHANGED <<shape, xoffset, yoffset, rotation, heap, _points, points, points_copy,
                 index, symmetries, result>>

\* The working copy, its translation and the translate callback (116-125).
\* Rebinding points_copy makes the previous copy's objects garbage: the heap
\* keeps the polygon's points and the midpoints, which were allocated first.
\* points_copy[index] raises IndexError when index is out of range.
translate ==
  /\ pc = "original"
  /\ LET c == deepcopy(SubSeq(heap, 1, Len(points)), points)
     IN  IF ~InRange(c.refs, index)
         THEN /\ pc' = "raised"
              /\ heap' = c.heap
              /\ points_copy' = c.refs
              /\ UNCHANGED events
         ELSE LET pf == c.heap[Item(c.refs, index)]
                  h  == _translate_shape(c.heap, c.refs, pf.x, pf.y)
              IN  /\ heap' = h
                  /\ points_copy' = c.refs
                  /\ events' = Append(events, Event("translate", index))
                  /\ pc' = "translated"
  /\ UNCHANGED <<shape, xoffset, yoffset, rotation, _points, points, index, symmetries, result>>

\* The rotation and the rotate callback (128-138).
rotate ==
  /\ pc = "translated"
  /\ LET opposite_index == index + half_length(Len(points))
     IN  IF ~InRange(points_copy, opposite_index)
         THEN /\ pc' = "raised"
              /\ UNCHANGED <<heap, events>>
         ELSE LET pf == heap[Item(points_copy, index)]
                  po == heap[Item(points_copy, opposite_index)]
                  h  == rotate_from(heap, points_copy, 1, _get_angle(pf, po))
              IN  /\ heap' = h
                  /\ events' = Append(events, Event("rotate", index))
                  /\ pc' = "rotated"
  /\ UNCHANGED <<shape, xoffset, yoffset, rotation, _points, points, points_copy, index,
                 symmetries, result>>

\* The stash without the call of the symmetry callback.
mirror_unnotified ==
  /\ pc = "rotated"
  /\ LET half == half_length(Len(points))
     IN  \E v \in symmetrical(heap, points_copy, index, half) :
           IF v
           THEN symmetries' = Append(symmetries, <<Item(points, index), Item(points, index + half)>>)
           ELSE UNCHANGED symmetries
  /\ index' = index + 1
  /\ pc' = "loop"
  /\ UNCHANGED <<shape, xoffset, yoffset, rotation, heap, _points, points, points_copy,
                 result, events>>

\* The mirror check, the stash and the symmetry callback (141-158).
mirror ==
  /\ pc = "rotated"
  /\ LET half == half_length(Len(points))
     IN  \E v \in symmetrical(heap, points_copy, index, half) :
           IF v
           THEN LET symmetry_point1 == Item(points, index)
                    symmetry_point2 == Item(points, index + half)
                IN  /\ symmetries' = Append(symmetries, <<symmetry_point1, symmetry_point2>>)
                    /\ events' = Append(events, Event("symmetry", index))
           ELSE UNCHANGED <<symmetries, events>>
  /\ index' = index + 1
  /\ pc' = "loop"
  /\ UNCHANGED <<shape, xoffset, yoffset, rotation, heap, _points, points, points_copy,
                 result>>

\* The loop is over: return symmetries (160).
return ==
  /\ pc = "loop"
  /\ index >= half_length(Len(points))
  /\ result' = [k \in 1..Len(symmetries) |-> <<heap[symmetries[k][1]], heap[symmetries[k][2]]>>]
  /\ pc' = "done"
  /\ UNCHANGED <<shape, xoffset, yoffset, rotation, heap, _points, points, points_copy,
                 index, symmetries, events>>

Next == init_view \/ double \/ original \/ translate \/ rotate \/ mirror \/ return

Spec == Init /\ [][Next]_vars

SpecView == InitView /\ [][Next]_vars


\* ------------------------------------------------ what the properties speak of
\* The polygon the detector was constructed with, by value.
Input == ViewPoints(shape, xoffset, yoffset, rotation)

\* The number of points of that polygon.
N == Len(shape)

\* The doubled sequence of a polygon given by value: vertex, midpoint to the next
\* vertex, ..., the last midpoint being the one of the wrap-around edge.
Doubled(V) ==
  [k \in 1..(2 * Len(V)) |->
     IF k % 2 = 1 THEN V[(k + 1) \div 2]
     ELSE LET a == V[k \div 2]
              b == V[((k \div 2) % Len(V)) + 1]
          IN  [x |-> (a.x + b.x) \div 2, y |-> (a.y + b.y) \div 2, r |-> 1, exact |-> TRUE]]

\* The unit direction of the line from A to B, as an integer vector reduced by its
\* gcd; (1, 0) when A = B.
Direction(A, B) ==
  LET g == Gcd(Abs(B.x - A.x), Abs(B.y - A.y))
  IN  IF g = 0 THEN <<1, 0>> ELSE <<(B.x - A.x) \div g, (B.y - A.y) \div g>>

\* The coordinates of q in the frame with origin A and first axis u: along the line
\* and across it, both times |u|.
Along(q, A, u) == (q.x - A.x) * u[1] + (q.y - A.y) * u[2]
Across(q, A, u) == (q.y - A.y) * u[1] - (q.x - A.x) * u[2]

Tolerance2(u) == CLOSE_ENOUGH * CLOSE_ENOUGH * Scale * Scale * (u[1] * u[1] + u[2] * u[2])

\* Pair m of candidate i of the doubled sequence D, in closed form: the squared
\* distance, times |u|^2, of the two points folded onto one side of the line
\* through D[i] and D[i + n], and of the mirror image of the first from the second.
FoldedDistance(D, i, m) ==
  LET A  == Item(D, i)
      u  == Direction(A, Item(D, i + Len(D) \div 2))
      q1 == Item(D, i - m)
      q2 == Item(D, i + m)
      dx == Along(q1, A, u) - Along(q2, A, u)
      dy == Abs(Across(q1, A, u)) - Abs(Across(q2, A, u))
  IN  dx * dx + dy * dy

ReflectedDistance(D, i, m) ==
  LET A  == Item(D, i)
      u  == Direction(A, Item(D, i + Len(D) \div 2))
      q1 == Item(D, i - m)
      q2 == Item(D, i + m)
      dx == Along(q1, A, u) - Along(q2, A, u)
      dy == Across(q1, A, u) + Across(q2, A, u)
  IN  dx * dx + dy * dy

Tolerance(D, i) == Tolerance2(Direction(Item(D, i), Item(D, i + Len(D) \div 2)))

\* The frame of candidate i is reached without rounding: no rotation is needed.
ExactFrame(D, i) == Direction(Item(D, i), Item(D, i + Len(D) \div 2)) = <<1, 0>>

\* Candidate i passes whatever the rounding / passes for some rounding.
MustPass(D, i) ==
  \A m \in 0..(Len(D) \div 2 - 1) : FoldedDistance(D, i, m) < Tolerance(D, i)

MayPass(D, i) ==
  \A m \in 0..(Len(D) \div 2 - 1) :
     \/ FoldedDistance(D, i, m) < Tolerance(D, i)
     \/ FoldedDistance(D, i, m) = Tolerance(D, i) /\ ~ExactFrame(D, i)

\* get_lines_of_symmetry has doubled the points; `index` candidates are finished.
Started == pc \notin {"view", "constructed"}

\* Candidate i is in the list of axes.
Recorded(i) ==
  \E k \in 1..Len(symmetries) : symmetries[k] = <<Item(points, i), Item(points, i + N)>>

\* The indices the symmetry observer was called with, in order.
SymmetryCalls == SelectSeq(events, LAMBDA e : e.kind = "symmetry")


\* -------------------------------------------------------------- properties
\* The axes of the square of SHAPES, as get_lines_of_symmetry returns them.
SquareAxes ==
  << <<Point(0, 0), Point(100, 100)>>, <<Point(0, 50), Point(100, 50)>>,
     <<Point(0, 100), Point(100, 0)>>, <<Point(50, 100), Point(50, 0)>> >>

\* C1: for the square (0,0),(0,100),(100,100),(100,0) get_lines_of_symmetry
\* returns exactly 4 axes: candidates 0 and 2 (through opposite vertices) and
\* candidates 1 and 3 (through opposite edge midpoints).
C1_SquareHasFourAxes ==
  (shape = Square /\ pc = "done") =>
     /\ Len(result) = 4
     /\ result = SquareAxes
     /\ \A i \in 0..3 : Recorded(i)

C1_Witness == shape = Square /\ pc = "done" /\ Len(result) = 4

\* C2: for a polygon of n >= 1 points _double_points returns 2n entries; entry
\* 2i is the original vertex i (the same object, with its coordinates) and entry
\* 2i+1 is the midpoint of vertex i and vertex (i+1) mod n.
C2_DoubledLayout ==
  (pc = "loop" /\ index = 0 /\ N >= 1) =>
     /\ Len(points) = 2 * N
     /\ \A i \in 0..(N - 1) :
          LET a == Input[i + 1]
              b == Input[((i + 1) % N) + 1]
              m == heap[Item(points, 2 * i + 1)]
          IN  /\ Item(points, 2 * i) = Item(_points, i)
              /\ heap[Item(points, 2 * i)] = a
              /\ Scale * m.x = a.x + b.x
              /\ Scale * m.y = a.y + b.y
              /\ m.r = 1

\* A polygon of three or more points whose wrap-around edge has a midpoint of its own.
C2_Witness ==
  /\ pc = "loop" /\ index = 0 /\ N >= 3
  /\ Input[N] # Input[1]
  /\ heap[Item(points, 2 * N - 1)] \notin {Input[N], Input[1]}

\* C3: the returned list is the pairs (doubled[i], doubled[i+n]) of the candidates
\* i in 0..n-1 whose mirror check passed, in strictly increasing order of i, one
\* pair per such candidate: at most n entries and no candidate twice.
C3_AxesAreCandidatePairs ==
  Started =>
     LET D == Values(heap, points)
         S == {i \in 0..(index - 1) : Recorded(i)}
     IN  /\ \A i \in 0..(index - 1) : (MustPass(D, i) => i \in S) /\ (i \in S => MayPass(D, i))
         /\ Len(symmetries) = Cardinality(S)
         /\ Len(symmetries) <= N
         /\ \A k \in 1..Len(symmetries) :
              \E i \in S : /\ Cardinality({j \in S : j < i}) = k - 1
                           /\ symmetries[k] = <<Item(points, i), Item(points, i + N)>>
         /\ pc = "done" =>
              /\ index = N
              /\ Len(result) = Len(symmetries)
              /\ \A k \in 1..Len(result) :
                   result[k] = <<heap[symmetries[k][1]], heap[symmetries[k][2]]>>

\* A finished run in which some candidates passed and some did not.
C3_Witness ==
  /\ pc = "done" /\ N >= 3
  /\ Len(result) >= 2
  /\ Len(result) < N
  /\ ~Recorded(0)

\* The calls of one finished candidate, and of the candidates before k.
Round(i) ==
  <<Event("original", i), Event("translate", i), Event("rotate", i)>>
    \o (IF Recorded(i) THEN <<Event("symmetry", i)>> ELSE <<>>)

RECURSIVE Rounds(_)
Rounds(k) == IF k = 0 THEN <<>> ELSE Rounds(k - 1) \o Round(k - 1)

\* C4: the observers are called, for i = 0, 1, ..., n-1 in this order,
\* original(i), translate(i), rotate(i), each once, and then symmetry(i) once if
\* and only if candidate i is recorded; all calls for i precede those for i+1.
C4_ObserverOrder ==
  events = Rounds(index) \o
     (CASE pc = "original"   -> <<Event("original", index)>>
        [] pc = "translated" -> <<Event("original", index), Event("translate", index)>>
        [] pc = "rotated"    -> <<Event("original", index), Event("translate", index),
                                  Event("rotate", index)>>
        [] OTHER             -> <<>>)

\* A finished run with a recorded candidate followed by a rejected one.
C4_Witness ==
  /\ pc = "done" /\ N >= 3
  /\ \E i \in 0..(N - 2) : Recorded(i) /\ ~Recorded(i + 1)
  /\ Len(events) > 3 * N

\* C5: get_lines_of_symmetry changes no coordinate of the caller's polygon nor of
\* the doubled sequence: at every point of the run (so at every original callback
\* and at the return) both carry the untransformed input coordinates.
C5_InputAndDoubledUntouched ==
  /\ pc # "view" => Values(heap, _points) = Input
  /\ Started => Values(heap, points) = Doubled(Input)
  /\ pc = "done" =>
       \A k \in 1..Len(result) :
         \E i \in 0..(N - 1) :
           result[k] = <<Item(Doubled(Input), i), Item(Doubled(Input), i + N)>>

\* The original callback of a later candidate, after the copy of the candidate
\* before it was translated and rotated away from the doubled sequence.
C5_Witness ==
  /\ pc = "original" /\ index >= 1
  /\ Len(points_copy) = Len(points)
  /\ \A k \in 1..Len(points) : heap[points_copy[k]] # heap[points[k]]

\* The (x, |y|) images of two transformed points are less than CLOSE_ENOUGH apart.
StrictlyWithinTolerance(p1, p2) ==
  LET dx == p2.x - p1.x
      dy == Abs(p2.y) - Abs(p1.y)
  IN  dx * dx + dy * dy < CLOSE_ENOUGH * CLOSE_ENOUGH * Scale * Scale * p1.r

\* Two transformed points whose coordinates carry float rounding.
Rounded(p1, p2) == ~(p1.exact /\ p2.exact)

\* The same images are exactly CLOSE_ENOUGH apart.
ExactlyAtTolerance(p1, p2) ==
  LET dx == p2.x - p1.x
      dy == Abs(p2.y) - Abs(p1.y)
  IN  dx * dx + dy * dy = CLOSE_ENOUGH * CLOSE_ENOUGH * Scale * Scale * p1.r

\* Pair m of the candidate just checked, in the rotated working copy.
Mirror1(m) == heap[Item(points_copy, (index - 1) - m)]
Mirror2(m) == heap[Item(points_copy, (index - 1) + m)]

\* C7: two transformed points match iff the distance between (x, |y|) of the one
\* and of the other is strictly less than 5 (a pair at exactly 5 does not match),
\* and a candidate is recorded iff every one of its pairs matches.  (Of a pair
\* whose exact distance is 5 and whose coordinates are rounded, the computed
\* distance is not known: it may be on either side.)
C7_StrictTolerance ==
  (pc \in {"loop", "done"} /\ index >= 1) =>
     /\ (\A m \in 0..(N - 1) : StrictlyWithinTolerance(Mirror1(m), Mirror2(m)))
           => Recorded(index - 1)
     /\ Recorded(index - 1) =>
           \A m \in 0..(N - 1) :
              \/ StrictlyWithinTolerance(Mirror1(m), Mirror2(m))
              \/ /\ ExactlyAtTolerance(Mirror1(m), Mirror2(m))
                 /\ Rounded(Mirror1(m), Mirror2(m))

\* A candidate rejected only because of pairs at distance exactly 5, computed
\* without rounding.
C7_Witness ==
  /\ pc = "loop" /\ index >= 1
  /\ ~Recorded(index - 1)
  /\ \E m \in 0..(N - 1) : ExactlyAtTolerance(Mirror1(m), Mirror2(m))
  /\ \A m \in 0..(N - 1) :
        /\ ~Rounded(Mirror1(m), Mirror2(m))
        /\ \/ ExactlyAtTolerance(Mirror1(m), Mirror2(m))
           \/ StrictlyWithinTolerance(Mirror1(m), Mirror2(m))


\* The polygon of the view before the sliders were moved.
Unmoved == ViewPoints(shape, 0, 0, 0)

\* No candidate of the doubled sequence D hangs on a rounding.
Definite(D) == \A i \in 0..(Len(D) \div 2 - 1) : MustPass(D, i) <=> MayPass(D, i)

\* The number of axes of a polygon none of whose candidates hangs on a rounding.
NumberOfAxes(V) == Cardinality({i \in 0..(Len(V) - 1) : MustPass(Doubled(V), i)})

\* C6: one rigid motion of all input vertices (a translation, or a rotation about
\* the origin by a multiple of 90 degrees) before the call leaves the number of
\* returned axes unchanged.  (Stated for the polygons whose candidates, moved and
\* unmoved, do not hang on a float rounding.)
C6_RigidMotionKeepsCount ==
  ( /\ pc = "done"
    /\ (xoffset = 0 /\ yoffset = 0) \/ rotation = 0
    /\ Definite(Doubled(Input))
    /\ Definite(Doubled(Unmoved)) )
  => Len(result) = NumberOfAxes(Unmoved)

\* C8: for a polygon of exactly 1 or exactly 2 points get_lines_of_symmetry
\* completes without raising, returns an empty list and never calls the symmetry
\* observer.
C8_DegenerateHasNoAxis ==
  N \in {1, 2} =>
     /\ pc # "raised"
     /\ SymmetryCalls = <<>>
     /\ symmetries = <<>>
     /\ result = <<>>

\* C9, as claimed: on the empty polygon get_lines_of_symmetry fails instead of
\* returning an axis list, before any observer is called.
C9_EmptyFailsFast ==
  N = 0 => (pc # "done" /\ events = <<>>)

\* C9, amended: on the empty polygon get_lines_of_symmetry does not raise: it
\* goes from the doubling straight to the return, returns the empty list and
\* calls no observer.
C9_EmptyReturnsEmpty ==
  N = 0 =>
     /\ pc \in {"view", "constructed", "loop", "done"}
     /\ pc = "loop" => ENABLED return
     /\ events = <<>>
     /\ symmetries = <<>>
     /\ result = <<>>

C9_Witness == N = 0 /\ pc = "done" /\ result = <<>> /\ events = <<>>

\* C10: every returned axis whose two points are distinct is a reflective symmetry
\* of the doubled polygon within the tolerance: for every m the mirror image of
\* doubled[(i - m) mod 2n] across the line through doubled[i] and doubled[i + n]
\* is less than 5 from doubled[i + m].  (A candidate that hangs on a rounding is
\* left out, and so is a mirror image at exactly 5 in a rotated frame.)
C10_AxesAreReflections ==
  Started =>
     LET D == Values(heap, points)
     IN  \A i \in 0..(index - 1) :
           ( /\ Recorded(i)
             /\ MustPass(D, i)
             /\ <<Item(D, i).x, Item(D, i).y>> # <<Item(D, i + N).x, Item(D, i + N).y>> )
           => \A m \in 0..(N - 1) :
                 \/ ReflectedDistance(D, i, m) < Tolerance(D, i)
                 \/ ReflectedDistance(D, i, m) = Tolerance(D, i) /\ ~ExactFrame(D, i)

=============================================================================
